---- MODULE Spec2Model ----
(***************************************************************************)
(* Model of backend/smtpChecker.js: the credential parser (parseFile),     *)
(* the verification unit (testSMTPConnection / workerFunction) and the     *)
(* bounded pool scheduler (checkSMTPAccounts / startWorker).               *)
(*                                                                         *)
(* A file is the sequence of lines readline yields; a line is a sequence   *)
(* of one-character strings.  Worker threads are numbered in the order     *)
(* startWorker creates them.  handled is the history of the message        *)
(* handler: which unit it ran for, the state of the job when it ran, and   *)
(* the unit it started (0 for none).                                       *)
(*                                                                         *)
(* The routes /check-smtp and /upload of backend/server.js are modelled    *)
(* around it: request is the uploaded or named file of the request,        *)
(* stored tells whether that file exists under uploads/, response is the   *)
(* HTTP response, emitted the socket events published, and data the raw    *)
(* content of an uploaded file.                                            *)
(***************************************************************************)
EXTENDS Integers, Sequences, FiniteSets, TLC

VARIABLES file, concurrency, pc, accounts, results, workers, units, promise,
          handled, request, stored, response, emitted, data

vars == <<file, concurrency, pc, accounts, results, workers, units, promise,
          handled, request, stored, response, emitted, data>>

routeVars == <<request, stored, response, emitted, data>>

schedulerVars == <<file, concurrency, pc, accounts, results, workers, units,
                   promise, handled>>

----------------------------------------------------------------------------
(* Bounds of the model *)

MaxLines == 3          \* lines of a file handed to checkSMTPAccounts
MaxConcurrency == 2    \* largest concurrency argument
MaxParseLines == 2     \* lines of a file handed to parseFile alone
MaxLineLen == 4        \* characters of a line handed to parseFile alone

Chars == {"a", "b", ":"}

Min(x, y) == IF x <= y THEN x ELSE y

----------------------------------------------------------------------------
(* parseFile: smtpChecker.js lines 14-30 *)

\* what destructuring binds when the array has no such element
undefined == <<"undefined">>

\* String.prototype.split(sep): cut s at EVERY occurrence of sep
RECURSIVE splitFrom(_, _, _, _, _)
splitFrom(s, sep, i, cur, acc) ==
  IF i > Len(s) THEN Append(acc, cur)
  ELSE IF s[i] = sep THEN splitFrom(s, sep, i + 1, <<>>, Append(acc, cur))
  ELSE splitFrom(s, sep, i + 1, Append(cur, s[i]), acc)

split(s, sep) == splitFrom(s, sep, 1, <<>>, <<>>)

\* JavaScript truthiness of a string-or-undefined value
truthy(x) == x # undefined /\ x # <<>>

\* const [email, password] = line.split(":")
lineEmail(line) == split(line, ":")[1]

linePassword(line) ==
  LET parts == split(line, ":")
  IN IF Len(parts) >= 2 THEN parts[2] ELSE undefined

\* if (email && password)
lineAccepted(line) == truthy(lineEmail(line)) /\ truthy(linePassword(line))

RECURSIVE parseFile(_)
parseFile(lines) ==
  IF lines = <<>> THEN <<>>
  ELSE LET line == Head(lines)
           rest == parseFile(Tail(lines))
       IN IF lineAccepted(line)
          THEN <<[email |-> lineEmail(line), password |-> linePassword(line)]>> \o rest
          ELSE rest

----------------------------------------------------------------------------
(* Inputs *)

RECURSIVE SeqsUpTo(_, _)
SeqsUpTo(S, n) ==
  IF n = 0 THEN {<<>>}
  ELSE LET shorter == SeqsUpTo(S, n - 1)
       IN shorter \cup {Append(s, x) : s \in {t \in shorter : Len(t) = n - 1}, x \in S}

\* every line of at most MaxLineLen characters
AllLines == SeqsUpTo(Chars, MaxLineLen)

\* lines of the files the scheduler is run on: two well-formed credentials
\* and one line without a separator
SampleLines == {<<"a", ":", "b">>, <<"b", ":", "a">>, <<"a">>}

\* the records parseFile accepted, before the scheduler consumes them
Accepted == parseFile(file)

M == Len(Accepted)

----------------------------------------------------------------------------
(* Promise returned by checkSMTPAccounts: lines 68, 82, 86, 89 *)

pending == [state |-> "pending"]

resolve(p, value) ==
  IF p.state = "pending" THEN [state |-> "resolved", value |-> value] ELSE p

reject_overwrites(p, reason) == [state |-> "rejected", reason |-> reason]

reject(p, reason) ==
  IF p.state = "pending" THEN [state |-> "rejected", reason |-> reason] ELSE p

----------------------------------------------------------------------------
(* Array and Set primitives used by the scheduler *)

popValue_first(a) == a[1]

\* accounts.pop(): the element returned and the array left behind
popValue(a) == a[Len(a)]

popRest_keeps(a) == a

popRest(a) == SubSeq(a, 1, Len(a) - 1)

workersDelete_skipped(ws, w) == ws

resultsPush_dropped(rs, x) == rs

resultsPush_front(rs, x) == <<x>> \o rs

\* results.push(result)
resultsPush(rs, x) == Append(rs, x)

\* workers.delete(worker)
workersDelete(ws, w) == ws \ {w}

\* a unit that has not posted anything yet
noMessage == [status |-> "none"]

\* startWorker(account): lines 69-73, a new Worker added to the set.
\* idx is the position the record had in the parsed list, via tells which
\* call site made the call.
startWorker(us, account, idx, via) ==
  Append(us, [data |-> account, idx |-> idx, via |-> via,
              phase |-> "running", msg |-> noMessage, code |-> 0])

\* the loop of lines 95-97; the bound is evaluated again on every iteration
RECURSIVE initialBatch(_, _, _, _)
initialBatch(i, n, accts, us) ==
  IF i < Min(n, Len(accts))
  THEN initialBatch(i + 1, n, popRest(accts),
                    startWorker(us, popValue(accts), Len(accts), "batch"))
  ELSE <<accts, us>>

moreAccounts_never(accts) == FALSE

\* line 79
moreAccounts(accts) == Len(accts) > 0

poolDrained_always(ws) == TRUE

poolDrained_never(ws) == FALSE

\* line 81
poolDrained(ws) == Cardinality(ws) = 0

exitRejects_never(code) == FALSE

\* line 88
exitRejects(code) == code # 0

\* testSMTPConnection: lines 47-52
testSMTPConnection(account, ok) ==
  IF ok THEN [email |-> account.email, status |-> "working"]
  ELSE [email |-> account.email, status |-> "dead", error |-> "verify failed"]

FaultCodes == {1}

----------------------------------------------------------------------------
(* State machine *)

\* no response sent yet
noResponse == [status |-> 0]

\* checkSMTPAccounts(filePath, concurrency = 5)
DefaultConcurrency == 5

Init ==
  /\ file \in SeqsUpTo(SampleLines, MaxLines)
  /\ concurrency \in 0..MaxConcurrency
  /\ pc = "start"
  /\ accounts = <<>>
  /\ results = <<>>
  /\ workers = {}
  /\ units = <<>>
  /\ promise = pending
  /\ handled = <<>>
  /\ request = "list.txt"
  /\ stored = TRUE
  /\ response = noResponse
  /\ emitted = <<>>
  /\ data = <<>>

\* line 64: const accounts = await parseFile(filePath)
ParseFile ==
  /\ pc = "start"
  /\ stored
  /\ accounts' = parseFile(file)
  /\ pc' = "parsed"
  /\ UNCHANGED <<file, concurrency, results, workers, units, promise, handled, routeVars>>

\* lines 68-98: the promise executor, which runs the initial batch
StartInitialBatch ==
  /\ pc = "parsed"
  /\ LET r == initialBatch(0, concurrency, accounts, units)
     IN /\ accounts' = r[1]
        /\ units' = r[2]
        /\ workers' = workers \cup (1..Len(r[2]))
  /\ pc' = "await"
  /\ UNCHANGED <<file, concurrency, results, promise, handled, routeVars>>

\* worker thread: lines 56-60, the verification ends and the result is posted
Verify(w) ==
  /\ units[w].phase = "running"
  /\ \E ok \in BOOLEAN :
       units' = [units EXCEPT ![w].phase = "posted",
                              ![w].msg = testSMTPConnection(units[w].data, ok)]
  /\ UNCHANGED <<file, concurrency, pc, accounts, results, workers, promise, handled, routeVars>>

\* the message handler, had it rejected the job on a dead result
OnMessage_deadRejects(w) ==
  /\ units[w].phase = "posted"
  /\ results' = resultsPush(results, units[w].msg)
  /\ LET us == [units EXCEPT ![w].phase = "reported"]
         ws == workersDelete(workers, w)
         p == IF units[w].msg.status = "dead"
              THEN reject(promise, [kind |-> "error", worker |-> w])
              ELSE promise
     IN IF moreAccounts(accounts)
        THEN /\ units' = startWorker(us, popValue(accounts), Len(accounts), "replacement")
             /\ workers' = ws \cup {Len(us) + 1}
             /\ accounts' = popRest(accounts)
             /\ promise' = p
             /\ handled' = Append(handled, [unit |-> w, job |-> promise.state,
                                            started |-> Len(us) + 1])
        ELSE /\ units' = us
             /\ workers' = ws
             /\ accounts' = accounts
             /\ promise' = IF poolDrained(ws) THEN resolve(p, results') ELSE p
             /\ handled' = Append(handled, [unit |-> w, job |-> promise.state,
                                            started |-> 0])
  /\ UNCHANGED <<file, concurrency, pc, routeVars>>

\* the message handler, had it dropped the messages that arrive after the
\* job was rejected
OnMessage_stopsAfterAbort(w) ==
  /\ units[w].phase = "posted"
  /\ LET us == [units EXCEPT ![w].phase = "reported"]
         ws == workersDelete(workers, w)
     IN IF promise.state = "rejected"
        THEN /\ units' = us
             /\ workers' = ws
             /\ UNCHANGED <<accounts, results, promise, handled>>
        ELSE IF moreAccounts(accounts)
        THEN /\ results' = resultsPush(results, units[w].msg)
             /\ units' = startWorker(us, popValue(accounts), Len(accounts), "replacement")
             /\ workers' = ws \cup {Len(us) + 1}
             /\ accounts' = popRest(accounts)
             /\ promise' = promise
             /\ handled' = Append(handled, [unit |-> w, job |-> promise.state,
                                            started |-> Len(us) + 1])
        ELSE /\ results' = resultsPush(results, units[w].msg)
             /\ units' = us
             /\ workers' = ws
             /\ accounts' = accounts
             /\ promise' = IF poolDrained(ws) THEN resolve(promise, results') ELSE promise
             /\ handled' = Append(handled, [unit |-> w, job |-> promise.state,
                                            started |-> 0])
  /\ UNCHANGED <<file, concurrency, pc, routeVars>>

\* lines 75-84: worker.on("message")
OnMessage(w) ==
  /\ units[w].phase = "posted"
  /\ results' = resultsPush(results, units[w].msg)
  /\ LET us == [units EXCEPT ![w].phase = "reported"]
         ws == workersDelete(workers, w)
     IN IF moreAccounts(accounts)
        THEN /\ units' = startWorker(us, popValue(accounts), Len(accounts), "replacement")
             /\ workers' = ws \cup {Len(us) + 1}
             /\ accounts' = popRest(accounts)
             /\ promise' = promise
             /\ handled' = Append(handled, [unit |-> w, job |-> promise.state,
                                            started |-> Len(us) + 1])
        ELSE /\ units' = us
             /\ workers' = ws
             /\ accounts' = accounts
             /\ promise' = IF poolDrained(ws) THEN resolve(promise, results') ELSE promise
             /\ handled' = Append(handled, [unit |-> w, job |-> promise.state,
                                            started |-> 0])
  /\ UNCHANGED <<file, concurrency, pc, routeVars>>

\* worker thread: an uncaught exception ends the thread
Crash(w) ==
  /\ units[w].phase = "running"
  /\ \E c \in FaultCodes :
       units' = [units EXCEPT ![w].phase = "errored", ![w].code = c]
  /\ UNCHANGED <<file, concurrency, pc, accounts, results, workers, promise, handled, routeVars>>

\* line 86: worker.on("error", reject)
OnError(w) ==
  /\ units[w].phase = "errored"
  /\ promise' = reject(promise, [kind |-> "error", worker |-> w])
  /\ units' = [units EXCEPT ![w].phase = "errorHandled"]
  /\ UNCHANGED <<file, concurrency, pc, accounts, results, workers, handled, routeVars>>

\* worker thread: the thread stops with a non-zero code without an exception
AbnormalExit(w) ==
  /\ units[w].phase = "running"
  /\ \E c \in FaultCodes :
       units' = [units EXCEPT ![w].phase = "stopped", ![w].code = c]
  /\ UNCHANGED <<file, concurrency, pc, accounts, results, workers, promise, handled, routeVars>>

\* lines 87-91: worker.on("exit"); a thread that posted its result exits 0
OnExit(w) ==
  /\ units[w].phase \in {"reported", "errorHandled", "stopped"}
  /\ promise' = IF exitRejects(units[w].code)
                THEN reject(promise, [kind |-> "exit", code |-> units[w].code])
                ELSE promise
  /\ units' = [units EXCEPT ![w].phase = "exited"]
  /\ UNCHANGED <<file, concurrency, pc, accounts, results, workers, handled, routeVars>>

Next ==
  \/ ParseFile
  \/ StartInitialBatch
  \/ \E w \in 1..Len(units) : Verify(w)
  \/ \E w \in 1..Len(units) : OnMessage(w)
  \/ \E w \in 1..Len(units) : Crash(w)
  \/ \E w \in 1..Len(units) : OnError(w)
  \/ \E w \in 1..Len(units) : AbnormalExit(w)
  \/ \E w \in 1..Len(units) : OnExit(w)

Spec == Init /\ [][Next]_vars

\* the event loop runs every queued handler and every worker thread runs
FairSpec == Spec /\ WF_vars(Next)

\* parseFile alone, on every file of at most MaxParseLines lines
InitParse ==
  /\ file \in SeqsUpTo(AllLines, MaxParseLines)
  /\ concurrency = DefaultConcurrency
  /\ pc = "start"
  /\ accounts = <<>>
  /\ results = <<>>
  /\ workers = {}
  /\ units = <<>>
  /\ promise = pending
  /\ handled = <<>>
  /\ request = "list.txt"
  /\ stored = TRUE
  /\ response = noResponse
  /\ emitted = <<>>
  /\ data = <<>>

NextParse == ParseFile

ParseSpec == InitParse /\ [][NextParse]_vars

----------------------------------------------------------------------------
(* server.js, route /check-smtp: lines 80-103 *)

InitTrigger ==
  /\ file \in SeqsUpTo(SampleLines, MaxLines)
  /\ concurrency = DefaultConcurrency
  /\ pc = "request"
  /\ accounts = <<>>
  /\ results = <<>>
  /\ workers = {}
  /\ units = <<>>
  /\ promise = pending
  /\ handled = <<>>
  /\ request \in {"none", "list.txt"}
  /\ stored \in BOOLEAN
  /\ response = noResponse
  /\ emitted = <<>>
  /\ data = <<>>

\* lines 81-89: the handler up to the call of checkSMTPAccounts(filePath)
PostCheckSmtp ==
  /\ pc = "request"
  /\ IF request = "none"
     THEN /\ response' = [status |-> 400, error |-> "No filename provided."]
          /\ pc' = "responded"
     ELSE /\ response' = response
          /\ pc' = "start"
  /\ UNCHANGED <<file, concurrency, accounts, results, workers, units, promise,
                 handled, request, stored, emitted, data>>

\* smtpChecker.js line 15: fs.open throws for a missing file, which rejects
\* the promise of the async function
ParseFileFails ==
  /\ pc = "start"
  /\ ~stored
  /\ promise' = reject(promise, [kind |-> "io"])
  /\ pc' = "failed"
  /\ UNCHANGED <<file, concurrency, accounts, results, workers, units, handled,
                 routeVars>>

\* lines 89-98: the await returns; response, socket event, fs.unlink
CheckSmtpResolved ==
  /\ response.status = 0
  /\ promise.state = "resolved"
  /\ response' = [status |-> 200, body |-> promise.value]
  /\ emitted' = Append(emitted, [event |-> "smtpCheckComplete",
                                 payload |-> promise.value])
  /\ stored' = FALSE
  /\ UNCHANGED <<schedulerVars, request, data>>

\* the catch block of lines 99-102, had it deleted the file as well
CheckSmtpRejected_unlinks ==
  /\ response.status = 0
  /\ promise.state = "rejected"
  /\ response' = [status |-> 500, error |-> "Error checking SMTP accounts."]
  /\ stored' = FALSE
  /\ UNCHANGED <<schedulerVars, request, emitted, data>>

\* lines 99-102: the await throws
CheckSmtpRejected ==
  /\ response.status = 0
  /\ promise.state = "rejected"
  /\ response' = [status |-> 500, error |-> "Error checking SMTP accounts."]
  /\ UNCHANGED <<schedulerVars, request, stored, emitted, data>>

NextTrigger ==
  \/ PostCheckSmtp
  \/ ParseFileFails
  \/ CheckSmtpResolved
  \/ CheckSmtpRejected
  \/ Next

TriggerSpec == InitTrigger /\ [][NextTrigger]_vars

----------------------------------------------------------------------------
(* server.js, route /upload: lines 106-145 *)

MaxUploadLines == 3    \* lines of an uploaded file

gmailLine == <<"a", "@", "g", "m", "a", "i", "l", ".", "c", "o", "m", ":", "b">>

\* lines an uploaded file is made of: one of the expected shape, one with a
\* separator only, one with the domain but no separator, and the empty line
UploadLines == {gmailLine, <<"a", ":", "b">>, SubSeq(gmailLine, 1, 11), <<>>}

RECURSIVE joinLines(_)
joinLines(lines) ==
  IF lines = <<>> THEN <<>>
  ELSE IF Len(lines) = 1 THEN lines[1]
  ELSE lines[1] \o <<"\n">> \o joinLines(Tail(lines))

\* line 123: the text every line must hold
needle == <<"@", "g", "m", "a", "i", "l", ".", "c", "o", "m", ":">>

\* String.prototype.includes
includes(s, sub) ==
  \E i \in 0..(Len(s) - Len(sub)) : SubSeq(s, i + 1, i + Len(sub)) = sub

lineNumber_zeroBased(index) == index

\* line 124: index + 1
lineNumber(index) == index + 1

\* lines 120-126: lines.forEach((line, index) => ...) with 0-based index
RECURSIVE collectInvalid(_, _, _)
collectInvalid(lines, index, invalidLines) ==
  IF index >= Len(lines) THEN invalidLines
  ELSE collectInvalid(lines, index + 1,
         IF ~includes(lines[index + 1], needle)
         THEN Append(invalidLines, lineNumber(index))
         ELSE invalidLines)

InitUpload ==
  /\ file = <<>>
  /\ concurrency = DefaultConcurrency
  /\ pc = "upload"
  /\ accounts = <<>>
  /\ results = <<>>
  /\ workers = {}
  /\ units = <<>>
  /\ promise = pending
  /\ handled = <<>>
  /\ request \in {"none", "list.txt"}
  /\ stored = (request # "none")
  /\ response = noResponse
  /\ emitted = <<>>
  /\ data \in {joinLines(ls) : ls \in SeqsUpTo(UploadLines, MaxUploadLines)}

\* lines 106-114: the handler up to the call of fs.readFile
PostUpload ==
  /\ pc = "upload"
  /\ IF request = "none"
     THEN /\ response' = [status |-> 400, error |-> "No file uploaded."]
          /\ pc' = "responded"
     ELSE /\ response' = response
          /\ pc' = "reading"
  /\ UNCHANGED <<file, concurrency, accounts, results, workers, units, promise,
                 handled, request, stored, emitted, data>>

\* lines 115-117: the readFile callback with an error
UploadReadFails ==
  /\ pc = "reading"
  /\ response' = [status |-> 500, error |-> "Error reading file."]
  /\ pc' = "responded"
  /\ UNCHANGED <<file, concurrency, accounts, results, workers, units, promise,
                 handled, request, stored, emitted, data>>

\* lines 119-143: the readFile callback with the content
UploadValidate ==
  /\ pc = "reading"
  /\ LET lines == split(data, "\n")
         invalidLines == collectInvalid(lines, 0, <<>>)
     IN IF Len(invalidLines) > 0
        THEN /\ stored' = FALSE
             /\ response' = [status |-> 400, error |-> "Invalid file format.",
                             invalidLines |-> invalidLines]
             /\ emitted' = emitted
        ELSE /\ stored' = stored
             /\ response' = [status |-> 200, filename |-> request]
             /\ emitted' = Append(emitted, [event |-> "fileUploaded",
                                            payload |-> request])
  /\ pc' = "uploaded"
  /\ UNCHANGED <<file, concurrency, accounts, results, workers, units, promise,
                 handled, request, data>>

NextUpload ==
  \/ PostUpload
  \/ UploadReadFails
  \/ UploadValidate

UploadSpec == InitUpload /\ [][NextUpload]_vars

----------------------------------------------------------------------------
(* Vocabulary of the properties *)

Range(s) == {s[i] : i \in 1..Len(s)}

Count(s, P(_)) == Cardinality({i \in 1..Len(s) : P(s[i])})

UnitIds == 1..Len(units)

\* the unit's fault has been seen by the scheduler (error or exit handler ran)
FaultHandled(w) ==
  \/ units[w].phase = "errorHandled"
  \/ units[w].phase = "exited" /\ units[w].code # 0

\* the unit's result has been handled by the scheduler
Reported(w) == units[w].msg # noMessage /\ units[w].phase \in {"reported", "exited"}

\* no unit has suffered an infrastructure fault
NoFault == \A w \in UnitIds : units[w].code = 0

\* splitting a line on its FIRST separator only
firstSeparator(line) ==
  IF ":" \in Range(line)
  THEN CHOOSE i \in 1..Len(line) : line[i] = ":" /\ \A j \in 1..(i - 1) : line[j] # ":"
  ELSE 0

beforeFirst(line) == SubSeq(line, 1, firstSeparator(line) - 1)

afterFirst(line) == SubSeq(line, firstSeparator(line) + 1, Len(line))

twoNonEmptyFields(line) ==
  /\ firstSeparator(line) > 0
  /\ beforeFirst(line) # <<>>
  /\ afterFirst(line) # <<>>

----------------------------------------------------------------------------
(* Properties *)

\* C1: in every reachable state the in-flight set holds at most min(N, M)
\* units, whatever the interleaving of completions and faults.
C1_InFlightBounded == Cardinality(workers) <= Min(concurrency, M)

C1_Witness ==
  /\ M = 3 /\ concurrency = 2
  /\ Cardinality(workers) = 2
  /\ \E w \in UnitIds : Reported(w)
  /\ \E w \in UnitIds : FaultHandled(w)

\* C2: with no infrastructure fault, a resolved job delivers exactly M
\* results, one for each accepted record by identifier.
C2_CompleteResults ==
  (promise.state = "resolved" /\ NoFault) =>
     LET accepted == Accepted
     IN
     /\ Len(promise.value) = Len(accepted)
     /\ \A r \in Range(accepted) :
          Count(promise.value, LAMBDA x : x.email = r.email)
            = Count(accepted, LAMBDA a : a.email = r.email)
     /\ \A x \in Range(promise.value) : x.status \in {"working", "dead"}

C2_Witness ==
  /\ promise.state = "resolved"
  /\ M = 3 /\ concurrency = 2
  /\ \E i, j \in 1..M : i # j /\ Accepted[i].email = Accepted[j].email
  /\ \E i, j \in 1..M : Accepted[i].email # Accepted[j].email

\* C3: a call whose parsed account list is empty dispatches no unit and
\* eventually resolves with the empty result sequence (stated here for the
\* calls with a concurrency of at least 1).
C3_EmptyListResolves ==
  /\ [](M = 0 => units = <<>>)
  /\ (pc = "await" /\ M = 0 /\ concurrency >= 1) ~> (promise.state = "resolved" /\ promise.value = <<>>)

\* C4: once the scheduler has seen a fault of any unit the job is rejected
\* with an error and carries no results, whatever was reported before.
C4_FaultAborts ==
  (\E w \in UnitIds : FaultHandled(w)) =>
     /\ promise.state = "rejected"
     /\ DOMAIN promise = {"state", "reason"}
     /\ promise.reason.kind \in {"error", "exit"}

C4_Witness ==
  /\ \E w \in UnitIds : FaultHandled(w)
  /\ Len(results) >= 2
  /\ \E i \in 1..Len(results) : results[i].status = "working"
  /\ \E i \in 1..Len(results) : results[i].status = "dead"

\* C5: under fairness every dispatched record eventually yields a result or
\* the job is aborted, and a job with M >= 1 and N >= 1 eventually settles.
C5_EventuallySettles ==
  /\ \A i \in 1..MaxLines :
       (\E w \in UnitIds : units[w].idx = i)
         ~> (\/ \E w \in UnitIds : units[w].idx = i /\ Reported(w)
             \/ promise.state = "rejected")
  /\ (pc = "await" /\ M >= 1 /\ concurrency >= 1) ~> (promise.state # "pending")

C5_Witness ==
  /\ M >= 2 /\ concurrency >= 2
  /\ promise.state = "resolved"
  /\ \A w \in UnitIds : units[w].phase = "exited"

\* C6: each accepted record is dispatched to at most one unit, so a record
\* reported dead is never dispatched again.
C6_DispatchedOnce ==
  LET accepted == Accepted
  IN /\ \A v, w \in UnitIds : v # w => units[v].idx # units[w].idx
     /\ \A w \in UnitIds :
          /\ units[w].idx \in 1..Len(accepted)
          /\ units[w].data = accepted[units[w].idx]

C6_Witness ==
  \E v, w \in UnitIds :
    /\ v < w
    /\ Reported(v) /\ units[v].msg.status = "dead"
    /\ units[w].via = "replacement"

\* C7: a concurrency below 1 over a non-empty backlog is treated as 1 (a
\* unit is dispatched and the job eventually completes), and a concurrency
\* above the backlog size is clamped to the backlog size.
C7_MinimumConcurrency ==
  /\ [](Cardinality(workers) <= M)
  /\ (pc = "await" /\ M >= 1 /\ concurrency < 1)
       ~> (Len(units) >= 1 /\ promise.state # "pending")

\* C8: parseFile returns exactly one record for each line that splits (on
\* its first separator) into two non-empty fields, in line order.
C8_ParseKeepsTwoFieldLines ==
  pc = "parsed" =>
    LET want == SelectSeq(file, twoNonEmptyFields)
    IN /\ Len(accounts) = Len(want)
       /\ \A i \in 1..Len(accounts) :
            i <= Len(want) => accounts[i].email = beforeFirst(want[i])

\* C9: for every line holding a separator, the record's identifier is the
\* text before the first separator and its secret all the text after it.
C9_SplitOnFirstSeparator ==
  pc = "parsed" =>
    LET kept == SelectSeq(file, lineAccepted)
    IN \A i \in 1..Len(kept) :
         /\ accounts[i].email = beforeFirst(kept[i])
         /\ accounts[i].password = afterFirst(kept[i])

\* C10: when M <= N every unit is dispatched by the initial batch and no
\* completion dispatches a replacement.
C10_NoReplenishment ==
  (pc = "await" /\ M <= concurrency) =>
     /\ Len(units) = M
     /\ \A w \in UnitIds : units[w].via = "batch"

\* C11: with concurrency 1 and no fault the units run one after the other,
\* M verifications occur, and the results are in dispatch order.
C11_SequentialPool ==
  (pc = "await" /\ concurrency = 1 /\ NoFault) =>
     /\ \A w \in UnitIds : w < Len(units) => Reported(w)
     /\ Cardinality(workers) <= 1
     /\ Len(results) <= Len(units)
     /\ \A i \in 1..Len(results) : i <= Len(units) => results[i] = units[i].msg
     /\ promise.state = "resolved" => Len(units) = M /\ Len(results) = M

C11_Witness ==
  /\ concurrency = 1 /\ M = 3 /\ NoFault
  /\ promise.state = "resolved"
  /\ Accepted[1] # Accepted[3]

\* C12: a settled job stays as it is: no later message, error or exit
\* changes the outcome, and the delivered result array is not changed.
C12_TerminalIsFinal ==
  /\ [][promise.state # "pending" => promise' = promise]_vars
  /\ [](promise.state = "resolved" => promise.value = results)

C12_Witness ==
  /\ promise.state = "rejected" /\ promise.reason.kind = "error"
  /\ \E w \in UnitIds : units[w].phase = "exited" /\ units[w].code # 0
  /\ \E w \in UnitIds : Reported(w)

\* C13: absent faults, whenever the backlog is non-empty after the initial
\* batch, the in-flight set holds exactly N units.
C13_Saturated ==
  (pc = "await" /\ NoFault /\ accounts # <<>>) => Cardinality(workers) = concurrency

\* C18: absent faults the backlog, the in-flight set and the results
\* partition the accepted records, and the job resolves only when the
\* backlog and the in-flight set are empty.
C18_Partition ==
  (pc # "start" /\ NoFault) =>
     LET backlog == 1..Len(accounts)
         inflight == {units[w].idx : w \in workers}
         done == {units[w].idx : w \in {v \in UnitIds : Reported(v)}}
     IN /\ Len(accounts) + Cardinality(workers) + Len(results) = M
        /\ Cardinality(inflight) = Cardinality(workers)
        /\ Cardinality(done) = Len(results)
        /\ backlog \cup inflight \cup done = 1..M
        /\ promise.state = "resolved" => accounts = <<>> /\ workers = {}

C18_Witness ==
  /\ NoFault /\ M = 3
  /\ Len(accounts) = 1 /\ Cardinality(workers) = 1 /\ Len(results) = 1

\* C20: the k-th dispatch of a run takes the last record remaining in the
\* parsed list, so the first accepted record is dispatched last.
C20_LastInFirstOut ==
  LET accepted == Accepted
  IN \A k \in UnitIds :
       /\ units[k].idx = Len(accepted) - k + 1
       /\ units[k].data = accepted[Len(accepted) - k + 1]

C20_Witness ==
  /\ M = 3 /\ Len(units) = 3
  /\ units[3].data = Accepted[1]
  /\ Accepted[1] # Accepted[3]
  /\ units[3].via = "replacement"

\* C14: at every state the results list is the sequence of the result
\* reports in the order the scheduler handled them.
C14_CompletionOrder ==
  /\ Len(results) = Len(handled)
  /\ \A i \in 1..Len(handled) :
       i <= Len(results) => results[i] = units[handled[i].unit].msg

C14_Witness ==
  /\ Len(results) >= 2
  /\ \E i, j \in 1..Len(handled) :
       /\ i < j
       /\ handled[i].unit > handled[j].unit
       /\ results[i] # results[j]

\* the scheduler's step for a result report of unit w, whatever its status
HandledAsReport(w) ==
  /\ results' = Append(results, units[w].msg)
  /\ w \notin workers'
  /\ (promise'.state = "rejected") <=> (promise.state = "rejected")
  /\ \A v \in UnitIds \ {w} :
       units'[v] = units[v] /\ (v \in workers' <=> v \in workers)
  /\ IF accounts # <<>>
     THEN /\ accounts' = SubSeq(accounts, 1, Len(accounts) - 1)
          /\ Len(units') = Len(units) + 1
          /\ units'[Len(units')].data = accounts[Len(accounts)]
          /\ units'[Len(units')].phase = "running"
          /\ workers' \ workers = {Len(units')}
          /\ promise' = promise
     ELSE /\ accounts' = accounts
          /\ Len(units') = Len(units)
          /\ workers' \ workers = {}
          /\ IF workers' = {} /\ promise.state = "pending"
             THEN promise'.state = "resolved"
             ELSE promise' = promise

\* C15: a dead report is handled exactly like a working one (result
\* appended, unit removed, replacement dispatched or job completed); it
\* never rejects the job and leaves the other units and the backlog alone.
C15_DeadIsNonFatal ==
  [][\A w \in UnitIds :
       (units[w].phase = "posted" /\ units'[w].phase = "reported"
          /\ units[w].msg.status \in {"dead", "working"})
         => HandledAsReport(w)]_vars

C15_Witness ==
  /\ \E i \in 1..Len(handled) :
       /\ units[handled[i].unit].msg.status = "dead"
       /\ handled[i].started # 0
  /\ promise.state = "resolved"
  /\ \A i \in 1..Len(results) : results[i].status = "dead"

\* C19: after a fault has rejected the job a later result report is still
\* appended and still dispatches a unit for the next backlog record, and a
\* faulted unit is never removed from the in-flight set.
C19_PoolRunsAfterAbort ==
  /\ [](\A w \in UnitIds : units[w].code # 0 => w \in workers)
  /\ [][\A w \in UnitIds :
          (promise.state = "rejected" /\ units[w].phase = "posted"
             /\ units'[w].phase = "reported")
            => /\ results' = Append(results, units[w].msg)
               /\ accounts # <<>> =>
                    /\ Len(units') = Len(units) + 1
                    /\ units'[Len(units')].phase = "running"
                    /\ Len(units') \in workers']_vars

C19_Witness ==
  /\ \E i \in 1..Len(handled) :
       handled[i].job = "rejected" /\ handled[i].started # 0
  /\ \E w \in UnitIds : FaultHandled(w) /\ w \in workers

====
